---- MODULE Spec2Model ----
(***************************************************************************)
(* Coin: a bit-flip resistant Boolean held in one byte (src/src/lib.rs).   *)
(* The memory holding the coins is a map from handles to bytes; bit flips  *)
(* are steps of the environment, every other action is one operation of    *)
(* the type.                                                               *)
(***************************************************************************)
EXTENDS Integers, FiniteSets, Sequences, TLC

VARIABLES coin, last, hist

vars == <<coin, last, hist>>

\* ------------------------------------------------------------------ u8
U8_BITS == 8
U8_MAX == 255
U8_MIN == 0

Byte == U8_MIN..U8_MAX
BitPos == 0..(U8_BITS - 1)

Bit(val, i) == (val \div (2 ^ i)) % 2

RECURSIVE CountFrom(_, _, _)
CountFrom(val, i, what) ==
    IF i = U8_BITS THEN 0
    ELSE (IF Bit(val, i) = what THEN 1 ELSE 0) + CountFrom(val, i + 1, what)

\* u8::count_ones and u8::count_zeros, tabulated over the 256 bytes
OnesOf == [val \in Byte |-> CountFrom(val, 0, 1)]
ZerosOf == [val \in Byte |-> CountFrom(val, 0, 0)]
count_ones(val) == OnesOf[val]
count_zeros(val) == ZerosOf[val]

\* one bit of the byte changes value
FlipBit(val, i) == IF Bit(val, i) = 1 THEN val - (2 ^ i) ELSE val + (2 ^ i)

\* ------------------------------------------------------------------ Coin
truthy_as_one == FlipBit(U8_MIN, 0)
truthy == U8_MAX

falsey == U8_MIN

to_bool_strict(m, c) ==
    LET val == m[c] IN count_ones(val) > count_zeros(val)
to_bool_nonzero(m, c) ==
    LET val == m[c] IN val # 0
to_bool(m, c) ==
    LET val == m[c] IN count_ones(val) >= count_zeros(val)

degauss_skip(m, c) == m
degauss(m, c) ==
    LET fresh_bits == IF to_bool(m, c) THEN U8_MAX ELSE U8_MIN
    IN  [m EXCEPT ![c] = fresh_bits]

\* bool's Hash writes the value as one u8, bool's Ord puts false first
bool_hash(b) == <<IF b THEN 1 ELSE 0>>
bool_cmp(x, y) ==
    IF x = y THEN "Equal" ELSE IF y THEN "Less" ELSE "Greater"
Some(x) == <<x>>

hash_raw(m, c) == [mem |-> m, ret |-> <<m[c]>>]
hash(m, c) ==
    LET m1 == degauss(m, c)
    IN  [mem |-> m1, ret |-> bool_hash(to_bool(m1, c))]

eq_raw(m, self, other) == [mem |-> m, ret |-> m[self] = m[other]]
eq(m, self, other) ==
    LET m1 == degauss(m, self)
        m2 == degauss(m1, other)
    IN  [mem |-> m2, ret |-> to_bool(m2, self) = to_bool(m2, other)]

cmp_swapped(m, self, other) ==
    LET m1 == degauss(m, self)
        m2 == degauss(m1, other)
    IN  [mem |-> m2, ret |-> bool_cmp(to_bool(m2, other), to_bool(m2, self))]
cmp(m, self, other) ==
    LET m1 == degauss(m, self)
        m2 == degauss(m1, other)
    IN  [mem |-> m2, ret |-> bool_cmp(to_bool(m2, self), to_bool(m2, other))]

partial_cmp(m, self, other) ==
    LET m1 == degauss(m, self)
        m2 == degauss(m1, other)
    IN  [mem |-> m2,
         ret |-> Some(bool_cmp(to_bool(m2, self), to_bool(m2, other)))]

from_ref(m, c) == to_bool(m, c)
from_coin(m, c) == to_bool(m, c)
from_bool(b) == IF b THEN truthy ELSE falsey

\* ------------------------------------------------------------------ actions
Canonical(val) == val \in {U8_MAX, U8_MIN}

Live(c) == c \in DOMAIN coin

\* what the last step was: the call, its operands, the operands whose byte
\* was corrupted (not canonical) when the call was made,
\* and what it returned: a bool (ret), an Ordering (ord), an Option<Ordering>
\* (opt) or the bytes written to the hasher (written)
Call(op, self, other) ==
    [op |-> op, self |-> self, other |-> other,
     dirty |-> {c \in {self, other} \cap DOMAIN coin : ~Canonical(coin[c])},
     ret |-> FALSE, ord |-> "-", opt |-> <<>>, written |-> <<>>]

Called(op, self, other, ret) == [Call(op, self, other) EXCEPT !.ret = ret]

BitFlipped == [op |-> "flip", self |-> "-", other |-> "-", dirty |-> {},
               ret |-> FALSE, ord |-> "-", opt |-> <<>>, written |-> <<>>]

\* Coin::from(b), bound to the handle c; ret keeps the argument b
FromBool(c, b) ==
    /\ coin' = (c :> from_bool(b)) @@ coin
    /\ last' = Called("from_bool", c, c, b)

ToBool_healing(c) ==
    /\ Live(c)
    /\ coin' = degauss(coin, c)
    /\ last' = Called("to_bool", c, c, to_bool(coin, c))
ToBool(c) ==
    /\ Live(c)
    /\ coin' = coin
    /\ last' = Called("to_bool", c, c, to_bool(coin, c))

FromRef(c) ==
    /\ Live(c)
    /\ coin' = coin
    /\ last' = Called("from_ref", c, c, from_ref(coin, c))

\* bool::from(coin) takes the coin by value: the handle is gone afterwards
FromCoin(c) ==
    /\ Live(c)
    /\ coin' = [d \in DOMAIN coin \ {c} |-> coin[d]]
    /\ last' = Called("from_coin", c, c, from_coin(coin, c))

Hash(c) ==
    /\ Live(c)
    /\ LET r == hash(coin, c)
       IN  /\ coin' = r.mem
           /\ last' = [Call("hash", c, c) EXCEPT !.written = r.ret]

Eq(self, other) ==
    /\ Live(self) /\ Live(other)
    /\ LET r == eq(coin, self, other)
       IN  /\ coin' = r.mem
           /\ last' = Called("eq", self, other, r.ret)

Cmp(self, other) ==
    /\ Live(self) /\ Live(other)
    /\ LET r == cmp(coin, self, other)
       IN  /\ coin' = r.mem
           /\ last' = [Call("cmp", self, other) EXCEPT !.ord = r.ret]

PartialCmp(self, other) ==
    /\ Live(self) /\ Live(other)
    /\ LET r == partial_cmp(coin, self, other)
       IN  /\ coin' = r.mem
           /\ last' = [Call("partial_cmp", self, other) EXCEPT !.opt = r.ret]

\* the environment: one bit of a stored byte flips
Flip(c, i) ==
    /\ Live(c)
    /\ coin' = [coin EXCEPT ![c] = FlipBit(coin[c], i)]
    /\ last' = BitFlipped

HealOps == {"hash", "eq", "cmp", "partial_cmp"}

\* ------------------------------------------------------------------ one coin
\* One coin through its life.  hist remembers the Boolean it was built from,
\* the bit positions flipped since its byte was last written, and whether it
\* was ever degaussed.  Corruption flips each position at most once between
\* two writes.
One == {"a"}

Built(b) == [born |-> b, flipped |-> {}, healed |-> FALSE]

Init ==
    \E b \in BOOLEAN :
        /\ coin = [c \in One |-> from_bool(b)]
        /\ last = Called("from_bool", "a", "a", b)
        /\ hist = Built(b)

Degaussed == hist' = [hist EXCEPT !.flipped = {}, !.healed = TRUE]

Construct == \E c \in One, b \in BOOLEAN : FromBool(c, b) /\ hist' = Built(b)
Read == \E c \in One : ToBool(c) /\ UNCHANGED hist
ReadRef == \E c \in One : FromRef(c) /\ UNCHANGED hist
Consume == \E c \in One : FromCoin(c) /\ UNCHANGED hist
HashOne == \E c \in One : Hash(c) /\ Degaussed
EqOne == \E s \in One, o \in One : Eq(s, o) /\ Degaussed
CmpOne == \E s \in One, o \in One : Cmp(s, o) /\ Degaussed
PartialCmpOne == \E s \in One, o \in One : PartialCmp(s, o) /\ Degaussed
Corrupt ==
    \E c \in One, i \in BitPos \ hist.flipped :
        /\ Flip(c, i)
        /\ hist' = [hist EXCEPT !.flipped = @ \cup {i}]

Next ==
    \/ Construct \/ Read \/ ReadRef \/ Consume
    \/ HashOne \/ EqOne \/ CmpOne \/ PartialCmpOne
    \/ Corrupt

Spec == Init /\ [][Next]_vars

\* ------------------------------------------------------------------ two coins
\* Two coins, each corrupted bit by bit without limit, hashed and compared
\* with each other and with themselves.
Pair == {"a", "b"}

InitPair ==
    /\ coin \in [Pair -> {from_bool(TRUE), from_bool(FALSE)}]
    /\ last = Called("from_bool", "b", "b", to_bool(coin, "b"))
    /\ hist = <<>>

FlipPair == \E c \in Pair, i \in BitPos : Flip(c, i) /\ UNCHANGED hist
HashPair == \E c \in Pair : Hash(c) /\ UNCHANGED hist
EqPair == \E s \in Pair, o \in Pair : Eq(s, o) /\ UNCHANGED hist
CmpPair == \E s \in Pair, o \in Pair : Cmp(s, o) /\ UNCHANGED hist
PartialCmpPair ==
    \E s \in Pair, o \in Pair : PartialCmp(s, o) /\ UNCHANGED hist

NextPair == FlipPair \/ HashPair \/ EqPair \/ CmpPair \/ PartialCmpPair

SpecPair == InitPair /\ [][NextPair]_vars

\* ------------------------------------------------------------------ healing
\* Coin "a" under repeated corruption, next to a peer "b" that is never
\* corrupted.  Any bit may flip any number of times.  hist counts the flips
\* since "a" was last degaussed (since) and in all (total), remembers whether
\* every stretch between two degaussings had at most Tolerance flips (within),
\* whether "a" was ever degaussed (healed), and whether some coin that was
\* never degaussed has been read with a value other than the one it was built
\* from (drifted).
Tolerance == 3
MaxFlips == 7

Fresh(b, d) ==
    [born |-> b, since |-> 0, total |-> 0, within |-> TRUE,
     healed |-> FALSE, drifted |-> d]

InitHeal ==
    \E b \in BOOLEAN, p \in BOOLEAN :
        /\ coin = ("a" :> from_bool(b)) @@ ("b" :> from_bool(p))
        /\ last = Called("from_bool", "a", "a", b)
        /\ hist = Fresh(b, FALSE)

HealNoted == hist' = [hist EXCEPT !.since = 0, !.healed = TRUE]

ConstructHeal ==
    \E b \in BOOLEAN : FromBool("a", b) /\ hist' = Fresh(b, hist.drifted)
ReadHeal ==
    /\ ToBool("a")
    /\ hist' = [hist EXCEPT !.drifted =
                    @ \/ (~hist.healed /\ to_bool(coin, "a") # hist.born)]
HashHeal == Hash("a") /\ HealNoted
EqHeal ==
    \E s \in Pair, o \in Pair : "a" \in {s, o} /\ Eq(s, o) /\ HealNoted
CmpHeal ==
    \E s \in Pair, o \in Pair : "a" \in {s, o} /\ Cmp(s, o) /\ HealNoted
PartialCmpHeal ==
    \E s \in Pair, o \in Pair : "a" \in {s, o} /\ PartialCmp(s, o) /\ HealNoted
FlipHeal ==
    \E i \in BitPos :
        /\ hist.total < MaxFlips
        /\ Flip("a", i)
        /\ hist' = [hist EXCEPT !.since = @ + 1, !.total = @ + 1,
                                !.within = @ /\ hist.since + 1 <= Tolerance]

NextHeal ==
    \/ ConstructHeal \/ ReadHeal
    \/ HashHeal \/ EqHeal \/ CmpHeal \/ PartialCmpHeal
    \/ FlipHeal

SpecHeal == InitHeal /\ [][NextHeal]_vars

\* ------------------------------------------------------------------ claims
OneBits(val) == {i \in BitPos : Bit(val, i) = 1}
ZeroBits(val) == {i \in BitPos : Bit(val, i) = 0}
Pattern(b) == IF b THEN U8_MAX ELSE U8_MIN
Readers == {"to_bool", "from_ref", "from_coin"}

\* C1: to_bool of a byte is true exactly when the byte has at least as many
\* 1-bits as 0-bits, which is when it has at least four 1-bits; 0b1100_0011
\* reads true and 0b0000_0001 reads false.
C1_ToBoolThreshold ==
    [][last'.op = "to_bool" =>
        LET x == coin[last'.self]
        IN  /\ last'.ret = (Cardinality(OneBits(x)) >= Cardinality(ZeroBits(x)))
            /\ last'.ret = (Cardinality(OneBits(x)) >= 4)
            /\ (x = 195 => last'.ret)
            /\ (x = 1 => ~last'.ret)]_vars

C1_Witness ==
    /\ last.op = "to_bool" /\ Live("a")
    /\ coin["a"] = 195 /\ last.ret = TRUE

\* C2: a coin built from b holds 0xFF when b is true and 0x00 when b is
\* false, reading it back right after gives b, and both conversions to bool
\* return what to_bool returns.
C2_RoundTrip ==
    [][/\ last'.op = "from_bool" =>
              coin'[last'.self] = (IF last'.ret THEN 255 ELSE 0)
       /\ (last.op = "from_bool" /\ last'.op \in Readers) =>
              last'.ret = last.ret
       /\ last'.op \in {"from_ref", "from_coin"} =>
              last'.ret = to_bool(coin, last'.self)]_vars

C2_Witness ==
    /\ last.op = "from_coin" /\ last.ret = TRUE
    /\ hist.born /\ hist.flipped = {} /\ ~hist.healed

\* C3: with one, two or three distinct bits of the byte a coin was built
\* with flipped, to_bool still returns the Boolean the coin was built from.
C3_UpToThreeFlips ==
    /\ (Live("a") /\ ~hist.healed) =>
           {i \in BitPos : Bit(coin["a"], i) # Bit(Pattern(hist.born), i)}
               = hist.flipped
    /\ (last.op = "to_bool" /\ ~hist.healed
            /\ Cardinality(hist.flipped) \in 1..3) =>
           last.ret = hist.born

C3_Witness ==
    /\ last.op = "to_bool" /\ ~hist.healed /\ ~hist.born
    /\ Cardinality(hist.flipped) = 3 /\ last.ret = FALSE

\* C4 as claimed: with four or more distinct bits of the byte a coin was
\* built with flipped, to_bool returns the opposite of the Boolean the coin
\* was built from, for a coin built from true as for one built from false.
C4_FourFlipsCross ==
    (last.op = "to_bool" /\ ~hist.healed /\ Cardinality(hist.flipped) >= 4) =>
        last.ret = ~hist.born

\* C4 as amended: a coin built from false reads true once four or more
\* distinct bits are flipped; a coin built from true still reads true with
\* exactly four bits flipped and reads false once five or more are.
C4_CrossingAmended ==
    (last.op = "to_bool" /\ ~hist.healed) =>
        LET n == Cardinality(hist.flipped)
        IN  /\ (~hist.born /\ n >= 4) => last.ret
            /\ (hist.born /\ n = 4) => last.ret
            /\ (hist.born /\ n >= 5) => ~last.ret

C4_Witness ==
    /\ last.op = "to_bool" /\ ~hist.healed /\ hist.born
    /\ Live("a") /\ coin["a"] = 195
    /\ Cardinality(hist.flipped) = 4 /\ last.ret = TRUE

\* C5: the equality operation returns true exactly when the two bytes
\* evaluate to the same truth value, whether or not the bytes are the same.
C5_EqByTruth ==
    [][last'.op = "eq" =>
        last'.ret = (to_bool(coin, last'.self) = to_bool(coin, last'.other))]_vars

C5_Witness ==
    /\ last.op = "eq" /\ last.ret = TRUE
    /\ last.self # last.other /\ last.dirty = {last.self}

\* C6: hashing feeds the hasher the truth value the byte evaluates to, never
\* the byte; two coins hashed one after the other that are equal have fed
\* the hasher the same input.
C6_HashByTruth ==
    [][/\ last'.op = "hash" =>
              last'.written = <<IF to_bool(coin, last'.self) THEN 1 ELSE 0>>
       /\ (last.op = "hash" /\ last'.op = "hash"
               /\ eq(coin', last.self, last'.self).ret) =>
              last'.written = last.written]_vars

C6_Witness ==
    /\ last.op = "hash" /\ last.dirty = {last.self}
    /\ \E o \in DOMAIN coin \ {last.self} :
           coin[o] = U8_MAX /\ last.written = <<1>>

\* C7: cmp orders two coins by their truth values, false before true;
\* partial_cmp returns Some of what cmp returns; cmp returns Equal exactly
\* when the equality operation returns true, and cmp of the operands swapped
\* is the converse.
Converse(ord) ==
    IF ord = "Less" THEN "Greater" ELSE IF ord = "Greater" THEN "Less" ELSE ord

C7_OrderByTruth ==
    [][LET x == to_bool(coin, last'.self)
           y == to_bool(coin, last'.other)
       IN  /\ last'.op = "cmp" =>
                  /\ last'.ord \in {"Less", "Equal", "Greater"}
                  /\ (last'.ord = "Less") = (~x /\ y)
                  /\ (last'.ord = "Equal") = (x = y)
                  /\ (last'.ord = "Greater") = (x /\ ~y)
                  /\ (last'.ord = "Equal") = eq(coin, last'.self, last'.other).ret
                  /\ last'.ord = Converse(cmp(coin, last'.other, last'.self).ret)
           /\ last'.op = "partial_cmp" =>
                  /\ last'.opt = <<cmp(coin, last'.self, last'.other).ret>>
                  /\ (last'.opt = <<"Less">>) = (~x /\ y)
                  /\ (last'.opt = <<"Equal">>) = (x = y)]_vars

C7_Witness ==
    /\ last.op = "cmp" /\ last.ord = "Less"
    /\ last.dirty = {last.self, last.other} /\ last.self # last.other

\* C8: a hash or a comparison leaves every operand's byte at the canonical
\* pattern of the truth value the byte had before, and a hash or comparison
\* that follows on the same operands changes no byte.
C8_HealsToCanonical ==
    [][/\ last'.op \in HealOps =>
              \A c \in {last'.self, last'.other} :
                  /\ coin'[c] = Pattern(to_bool(coin, c))
                  /\ to_bool(coin', c) = to_bool(coin, c)
       /\ (last.op \in HealOps /\ last'.op \in HealOps
               /\ {last'.self, last'.other} \subseteq {last.self, last.other}) =>
              coin' = coin]_vars

C8_Witness ==
    /\ last.op = "eq" /\ last.self = last.other
    /\ last.dirty = {last.self} /\ Canonical(coin[last.self])

\* C9: to_bool and the conversion from a reference leave the byte as it is,
\* corrupted or not; among the operations on a coin only hashing and the
\* comparisons rewrite its byte.
C9_ReadsDoNotHeal ==
    [][/\ last'.op \in {"to_bool", "from_ref"} => coin' = coin
       /\ \A c \in DOMAIN coin \cap DOMAIN coin' :
              (coin'[c] # coin[c] /\ last'.op \notin {"flip", "from_bool"}) =>
                  (last'.op \in HealOps /\ c \in {last'.self, last'.other})]_vars

C9_Witness ==
    /\ last.op = "from_ref" /\ last.dirty = {"a"}
    /\ Live("a") /\ ~Canonical(coin["a"])

\* C10: as long as no stretch before the first or between two healing
\* operations has had more than three bit flips, the coin reads as the
\* Boolean it was built from, whatever the number of flips in all.
C10_HealingKeepsValue ==
    hist.within =>
        /\ to_bool(coin, "a") = hist.born
        /\ last.op = "to_bool" => last.ret = hist.born

\* reached: more than twice three flips survived thanks to healing, after a
\* coin that was only ever read had drifted to the wrong value
C10_Witness ==
    /\ hist.within /\ hist.healed /\ hist.total > 2 * Tolerance
    /\ hist.since = Tolerance
    /\ last.op = "to_bool" /\ last.ret = hist.born
    /\ hist.drifted
====
